---------------------------- MODULE Spec2Model ----------------------------
(***************************************************************************)
(* Library Management API (categories and books over a document store).    *)
(* The store is two collections; every request handler is a sequence of    *)
(* store operations separated by awaits, so one step of the model is one   *)
(* store operation together with the synchronous code that follows it up   *)
(* to the next await (or to the response).  The user service (register,   *)
(* update, login over a collection of users) is a second program with its  *)
(* own store, modelled the same way.                                       *)
(***************************************************************************)
EXTENDS Integers, Sequences, FiniteSets, TLC

(***************************************************************************)
(* Bounds of the model.                                                    *)
(***************************************************************************)
MaxCat == 2
MaxBook == 2
MaxReq == 2

(***************************************************************************)
(* Identifiers.  ObjectIds are generated by the driver and never reused:   *)
(* category ids are 1..MaxCat and book ids 1..MaxBook in order of          *)
(* creation.  AbsentId is a well-formed ObjectId that no document ever     *)
(* has, BadId a string that is not an ObjectId (casting it throws a        *)
(* CastError), NoId a missing or falsy id.                                 *)
(***************************************************************************)
AbsentId == 0
NoId == -1
BadId == -2

CatIds == 1..MaxCat
BookIds == 1..MaxBook
Req == 1..MaxReq

(***************************************************************************)
(* Strings are sequences of characters; Undef is the value of a field the  *)
(* request body does not carry.                                            *)
(***************************************************************************)
Undef == <<"undefined">>

RECURSIVE TrimLeft(_)
TrimLeft(s) == IF s # <<>> /\ Head(s) = " " THEN TrimLeft(Tail(s)) ELSE s

RECURSIVE TrimRight(_)
TrimRight(s) ==
    IF s # <<>> /\ s[Len(s)] = " " THEN TrimRight(SubSeq(s, 1, Len(s) - 1)) ELSE s

Trim(s) == TrimRight(TrimLeft(s))

normaliseString(value) == IF value = Undef THEN value ELSE Trim(value)

FalsyIfUndefined(value) == value = Undef

\* JavaScript's !value for a string or undefined
Falsy(value) == value = Undef \/ value = <<>>

\* "field" in req.body
InBody(value) == value # Undef

\* the library service (categories, books, their id counters, its requests) and
\* the user service (users, its requests): two programs, each with its own store
VARIABLES categories, books, nextCat, nextBook, req, users, ureq

vars == <<categories, books, nextCat, nextBook, req, users, ureq>>

(***************************************************************************)
(* Store operations of the two collections.                                *)
(***************************************************************************)
countDocumentsAll(bks, categoryId) == Cardinality(DOMAIN bks)

countDocumentsLessOne(bks, categoryId) ==
    Cardinality({b \in DOMAIN bks : bks[b].category = categoryId}) - 1

\* Book.countDocuments({ category: categoryId })
countDocuments(bks, categoryId) ==
    Cardinality({b \in DOMAIN bks : bks[b].category = categoryId})

\* Book.exists({ category: categoryId })
BookExists(bks, categoryId) == \E b \in DOMAIN bks : bks[b].category = categoryId

\* the unique index on Category.name
NameTaken(cats, name, except) ==
    \E c \in DOMAIN cats : c # except /\ cats[c].name = name

IsbnTakenNever(bks, isbn, except) == FALSE

\* the unique index on Book.isbn
IsbnTaken(bks, isbn, except) ==
    \E b \in DOMAIN bks : b # except /\ bks[b].isbn = isbn

\* Category.findByIdAndUpdate(categoryId, { bookCount: totalBooks }): no upsert,
\* a missing category matches nothing
SetBookCountUpsert(cats, categoryId, totalBooks) ==
    IF categoryId \in DOMAIN cats
    THEN [cats EXCEPT ![categoryId].bookCount = totalBooks]
    ELSE [c \in DOMAIN cats \cup {categoryId} |->
            IF c = categoryId
            THEN [name |-> <<>>, description |-> Undef, bookCount |-> totalBooks]
            ELSE cats[c]]

SetBookCountAdd(cats, categoryId, totalBooks) ==
    IF categoryId \in DOMAIN cats
    THEN [cats EXCEPT ![categoryId].bookCount = @ + totalBooks]
    ELSE cats

SetBookCountEvery(cats, categoryId, totalBooks) ==
    [c \in DOMAIN cats |-> [cats[c] EXCEPT !.bookCount = totalBooks]]

\* an update that replaces the document instead of setting one field
SetBookCountOverwrite(cats, categoryId, totalBooks) ==
    IF categoryId \in DOMAIN cats
    THEN [cats EXCEPT ![categoryId] =
            [name |-> @.name, description |-> Undef, bookCount |-> totalBooks]]
    ELSE cats

SetBookCount(cats, categoryId, totalBooks) ==
    IF categoryId \in DOMAIN cats
    THEN [cats EXCEPT ![categoryId].bookCount = totalBooks]
    ELSE cats

recalculateBookCountIncrement(cats, bks, categoryId) ==
    IF categoryId \in DOMAIN cats
    THEN [cats EXCEPT ![categoryId].bookCount = @ + 1]
    ELSE cats

\* recalculateBookCount run without interruption: the count, then the write
recalculateBookCount(cats, bks, categoryId) ==
    IF categoryId = NoId
    THEN cats
    ELSE SetBookCount(cats, categoryId, countDocuments(bks, categoryId))

\* a constructor that passes the body's bookCount on to the document
NewCategoryWithCount(body) ==
    [name |-> body.name, description |-> body.description,
     bookCount |-> IF body.bookCount # <<>> THEN body.bookCount[1] ELSE 0]

\* new Category({ name, description }): of the body only name and description
\* reach the document, bookCount takes the schema default
NewCategory(body) ==
    [name |-> body.name, description |-> body.description, bookCount |-> 0]

Insert(coll, id, doc) == [x \in DOMAIN coll \cup {id} |-> IF x = id THEN doc ELSE coll[x]]

RemoveNothing(coll, id) == coll

Remove(coll, id) == [x \in DOMAIN coll \ {id} |-> coll[x]]


(***************************************************************************)
(* A request: the handler it runs, the store operation it waits for (pc),  *)
(* its response status (0 until it has answered) and the handler's locals. *)
(* name is the normalised req.body.name of a category request, bookCount   *)
(* the req.body.bookCount it carries: <<>> when the body has none, <<n>>   *)
(* when it has the number n.                                               *)
(* A request enters the model with its first store operation: the code     *)
(* before it reads nothing but the request.                                *)
(***************************************************************************)
NoBook == [isbn |-> Undef, title |-> Undef, author |-> Undef, category |-> NoId]

\* one call of recalculateBookCount in flight: its argument, the operation it
\* waits for, the count it has read, and whether findByIdAndUpdate resolved with a
\* category (it resolves with null when none has the id)
RcOff == [cat |-> NoId, pc |-> "off", total |-> 0, matched |-> TRUE]

RcStart(categoryId) ==
    [cat |-> categoryId, pc |-> IF categoryId = NoId THEN "done" ELSE "count",
     total |-> 0, matched |-> TRUE]

Idle ==
    [op |-> "idle", pc |-> "idle", status |-> 0, id |-> NoId,
     name |-> Undef, bookCount |-> <<>>,
     title |-> Undef, author |-> Undef, isbn |-> Undef,
     category |-> NoId, valid |-> TRUE,
     book |-> NoBook, newCat |-> NoId, prevCat |-> NoId,
     rc |-> <<RcOff, RcOff>>, drift |-> {}]

\* the categories whose bookCount is not the number of books that refer to them
Drifted(cats, bks) ==
    {c \in DOMAIN cats : cats[c].bookCount # countDocuments(bks, c)}

\* a request as it arrives; drift is history, no handler reads it: the categories
\* that were drifted at that time (In.history: whether the history is kept)
Arrived(op, In) ==
    [Idle EXCEPT !.op = op,
                 !.drift = IF In.history THEN Drifted(categories, books) ELSE {}]

Settled(rc) == \A i \in 1..2 : rc[i].pc \in {"off", "done", "failed"}

InFlight(r) == req[r].op # "idle" /\ req[r].pc # "done"

Quiescent == \A r \in Req : ~InFlight(r)

\* a new request is served by the lowest free slot (the slots are alike)
Free(r) == req[r].op = "idle" /\ \A q \in Req : q < r => req[q].op # "idle"

\* the ids a client can name: those handed out so far and the ids of no document
CatIdInputs(In) == {c \in CatIds : c < nextCat} \cup In.ids

\* the books that requests in flight act on
BooksInFlight ==
    {req[q].id : q \in {x \in Req : InFlight(x) /\ req[x].op \in
                                       {"createBook", "updateBook", "deleteBook"}}}

BookIdInputs(In) ==
    ({b \in BookIds : b < nextBook} \ (IF In.otherBooks THEN BooksInFlight ELSE {}))
        \cup In.ids

\* the handler is over (it has answered, and no call of it is still running):
\* its locals are gone, the model keeps what the request was about
Over(q) ==
    [Idle EXCEPT !.op = q.op, !.pc = "done", !.status = q.status, !.id = q.id,
                 !.name = q.name, !.bookCount = q.bookCount,
                 !.title = q.title, !.author = q.author, !.isbn = q.isbn,
                 !.category = q.category, !.newCat = q.newCat, !.prevCat = q.prevCat,
                 !.rc = q.rc, !.drift = q.drift]

\* the book is written: of the handler's locals only the ids are still read
Written(q, bookId, rcs) ==
    [Idle EXCEPT !.op = q.op, !.pc = "recalc", !.id = bookId, !.category = q.category,
                 !.newCat = q.newCat, !.prevCat = q.prevCat, !.rc = rcs,
                 !.drift = q.drift]

\* res.status(code).json(...) followed by return
Respond(q, code) == Over([q EXCEPT !.status = code])

\* the catch block of each handler
CatchStatusOk(op, code) == 200

CatchStatus(op, code) ==
    IF op \in {"createCategory", "updateCategory", "createBook", "updateBook"}
       /\ code = 11000
    THEN 409
    ELSE 400

(***************************************************************************)
(* The user service: its documents, its requests and the functions its     *)
(* handlers call.  A user document is modelled by its userName, its email  *)
(* and its password hash; the other fields take part only through schema   *)
(* validation (valid).                                                     *)
(***************************************************************************)
MaxUser == 2

UserIds == 1..MaxUser

\* String.prototype.toLowerCase on the alphabet of the model, whose only upper
\* case letter is "E"
toLowerCase(s) == [i \in 1..Len(s) |-> IF s[i] = "E" THEN "e" ELSE s[i]]

\* the setters of userSchema.userName (trim) and userSchema.email (lowercase,
\* trim), which Mongoose applies to documents, updates and query filters
CastUserName(value) == IF value = Undef THEN value ELSE Trim(value)

CastEmail(value) == IF value = Undef THEN value ELSE Trim(toLowerCase(value))

\* bcrypt.hash(password, salt) and bcrypt.compare(password, hash)
bcryptHash(password) == <<"$2b$">> \o password

bcryptCompare(password, hashed) == hashed = bcryptHash(password)

PasswordsMatchAlways(password, confirmPassword) == TRUE

\* password !== confirmPassword, negated
PasswordsMatch(password, confirmPassword) == password = confirmPassword

\* the unique indexes on user.email and user.userName
EmailTaken(us, email, except) ==
    \E u \in DOMAIN us : u # except /\ us[u].email = email

UserNameTaken(us, userName, except) ==
    \E u \in DOMAIN us : u # except /\ us[u].userName = userName

\* User.findOne({ $or: [{ email }, { userName }] })
FindOneByEither(us, email, userName) ==
    {u \in DOMAIN us : us[u].email = CastEmail(email)
                          \/ us[u].userName = CastUserName(userName)}

\* the user object of a response: the fields the handlers copy (or select), the
\* password is not among them
UserResponse(us, id) ==
    [id |-> id, userName |-> us[id].userName, email |-> us[id].email]

\* a response body: its message and, in a sequence of at most one, its user
Body(message, user) == [message |-> message, user |-> user]

InvalidCredentials == Body("Invalid credentials.", <<>>)

UserNotFound == Body("User not found.", <<>>)

\* the response of POST /api/users/login when no user matches the identifier
LoginNoUserDistinct == [status |-> 404, body |-> UserNotFound]

LoginNoUser == [status |-> 401, body |-> InvalidCredentials]

\* a request of the user service; matched is history: whether the findOne of a
\* login found a user
UIdle ==
    [op |-> "idle", pc |-> "idle", status |-> 0, id |-> NoId,
     email |-> Undef, userName |-> Undef, password |-> Undef,
     confirmPassword |-> Undef, valid |-> TRUE,
     body |-> Body("", <<>>), matched |-> FALSE]

UInFlight(r) == ureq[r].op # "idle" /\ ureq[r].pc # "done"

UFree(r) == ureq[r].op = "idle" /\ \A q \in Req : q < r => ureq[q].op # "idle"

\* res.status(code).json(body): the handler is over, schema validation is behind
UAnswer(q, code, body) ==
    [q EXCEPT !.pc = "done", !.status = code, !.body = body, !.valid = TRUE]

Init ==
    /\ categories = <<>>
    /\ books = <<>>
    /\ nextCat = 1
    /\ nextBook = 1
    /\ req = [r \in Req |-> Idle]
    /\ users = <<>>
    /\ ureq = [r \in Req |-> UIdle]

(***************************************************************************)
(* POST /api/categories                                                    *)
(***************************************************************************)
CreateCategory(r, In) ==
    /\ Free(r)
    /\ nextCat <= MaxCat
    /\ \E rawName \in In.names, rawDesc \in In.descs, bookCount \in In.counts :
         LET name == normaliseString(rawName)
             description == normaliseString(rawDesc)
             body == [name |-> name, description |-> description,
                      bookCount |-> bookCount]
             q == [Arrived("createCategory", In) EXCEPT !.name = name,
                                                       !.bookCount = bookCount]
         IN  IF Falsy(name)
             THEN /\ req' = [req EXCEPT ![r] = Respond(q, 400)]
                  /\ UNCHANGED <<categories, nextCat>>
             ELSE IF NameTaken(categories, name, NoId)
             THEN /\ req' = [req EXCEPT ![r] = Respond(q, CatchStatus(q.op, 11000))]
                  /\ UNCHANGED <<categories, nextCat>>
             ELSE /\ categories' = Insert(categories, nextCat, NewCategory(body))
                  /\ nextCat' = nextCat + 1
                  /\ req' = [req EXCEPT ![r] = Respond([q EXCEPT !.id = nextCat], 201)]
    /\ UNCHANGED <<books, nextBook>>
    /\ UNCHANGED <<users, ureq>>

(***************************************************************************)
(* PUT /api/categories/:id                                                 *)
(***************************************************************************)
\* an update that takes bookCount from the body as well
CategoryUpdatedWithCount(cat, body) ==
    [cat EXCEPT !.name = IF InBody(body.name) THEN body.name ELSE @,
                !.description = IF InBody(body.description) THEN body.description ELSE @,
                !.bookCount = IF body.bookCount # <<>> THEN body.bookCount[1] ELSE @]

\* the update findByIdAndUpdate applies: only the fields put into updates, which
\* are the body's name and description
CategoryUpdated(cat, body) ==
    [cat EXCEPT !.name = IF InBody(body.name) THEN body.name ELSE @,
                !.description = IF InBody(body.description) THEN body.description ELSE @]

UpdateCategory(r, In) ==
    /\ Free(r)
    /\ \E id \in CatIdInputs(In), rawName \in In.names, rawDesc \in In.descs,
          bookCount \in In.counts :
         LET name == normaliseString(rawName)
             description == normaliseString(rawDesc)
             body == [name |-> name, description |-> description,
                      bookCount |-> bookCount]
             q == [Arrived("updateCategory", In) EXCEPT !.id = id, !.name = name,
                                                       !.bookCount = bookCount]
         IN  IF id = BadId \/ name = <<>>
             THEN \* CastError, or runValidators rejecting an empty name
                  /\ req' = [req EXCEPT ![r] = Respond(q, CatchStatus(q.op, 0))]
                  /\ UNCHANGED categories
             ELSE IF id \notin DOMAIN categories
             THEN /\ req' = [req EXCEPT ![r] = Respond(q, 404)]
                  /\ UNCHANGED categories
             ELSE IF InBody(name) /\ NameTaken(categories, name, id)
             THEN /\ req' = [req EXCEPT ![r] = Respond(q, CatchStatus(q.op, 11000))]
                  /\ UNCHANGED categories
             ELSE /\ categories' =
                       [categories EXCEPT ![id] = CategoryUpdated(@, body)]
                  /\ req' = [req EXCEPT ![r] = Respond(q, 200)]
    /\ UNCHANGED <<books, nextCat, nextBook>>
    /\ UNCHANGED <<users, ureq>>

(***************************************************************************)
(* DELETE /api/categories/:id                                              *)
(***************************************************************************)
\* what the handler does with the answer of Book.exists
AfterExistsIgnored(q, hasBooks) == [q EXCEPT !.pc = "findByIdAndDelete"]

AfterExists(q, hasBooks) ==
    IF hasBooks THEN Respond(q, 409) ELSE [q EXCEPT !.pc = "findByIdAndDelete"]

ExistsBooks(r, In) ==
    /\ Free(r)
    /\ \E id \in CatIdInputs(In) :
         LET q == [Arrived("deleteCategory", In) EXCEPT !.id = id]
         IN  req' = [req EXCEPT ![r] =
                IF id = BadId
                THEN Respond(q, CatchStatus(q.op, 0))
                ELSE AfterExists(q, BookExists(books, id))]
    /\ UNCHANGED <<categories, books, nextCat, nextBook>>
    /\ UNCHANGED <<users, ureq>>

\* Category.findByIdAndDelete(categoryId): the category goes whatever refers to it
FindByIdAndDeleteIfUnreferenced(cats, bks, categoryId) ==
    IF BookExists(bks, categoryId) THEN cats ELSE Remove(cats, categoryId)

FindByIdAndDelete(cats, bks, categoryId) == Remove(cats, categoryId)

\* a handler that answers 200 whether or not findByIdAndDelete found the category
DeleteCategoryUnchecked(r) ==
    /\ req[r].op = "deleteCategory" /\ req[r].pc = "findByIdAndDelete"
    /\ categories' = FindByIdAndDelete(categories, books, req[r].id)
    /\ req' = [req EXCEPT ![r] = Respond(req[r], 200)]
    /\ UNCHANGED <<books, nextCat, nextBook>>
    /\ UNCHANGED <<users, ureq>>

DeleteCategory(r) ==
    /\ req[r].op = "deleteCategory" /\ req[r].pc = "findByIdAndDelete"
    /\ IF req[r].id \notin DOMAIN categories
       THEN /\ req' = [req EXCEPT ![r] = Respond(req[r], 404)]
            /\ UNCHANGED categories
       ELSE /\ categories' = FindByIdAndDelete(categories, books, req[r].id)
            /\ req' = [req EXCEPT ![r] = Respond(req[r], 200)]
    /\ UNCHANGED <<books, nextCat, nextBook>>
    /\ UNCHANGED <<users, ureq>>

(***************************************************************************)
(* recalculateBookCount as the handlers run it: a count, an await, a       *)
(* write.  A handler awaits one call, or two at once (Promise.all).        *)
(***************************************************************************)
\* the handler's code after its recalculateBookCount calls have all returned
AfterRecalc(q) ==
    IF ~Settled(q.rc) THEN q
    ELSE IF q.status # 0 THEN Over(q)
    ELSE IF q.op = "deleteBook" THEN Respond(q, 200)
    ELSE [q EXCEPT !.pc = "populate"]

RecalcCount(r, i) ==
    /\ req[r].pc = "recalc" /\ req[r].rc[i].pc = "count"
    /\ req' = [req EXCEPT ![r].rc[i].total = countDocuments(books, req[r].rc[i].cat),
                          ![r].rc[i].pc = "write"]
    /\ UNCHANGED <<categories, books, nextCat, nextBook>>
    /\ UNCHANGED <<users, ureq>>

RecalcWrite(r, i) ==
    /\ req[r].pc = "recalc" /\ req[r].rc[i].pc = "write"
    /\ categories' = SetBookCount(categories, req[r].rc[i].cat, req[r].rc[i].total)
    /\ req' = [req EXCEPT ![r] =
          AfterRecalc([req[r] EXCEPT !.rc[i].pc = "done", !.rc[i].total = 0,
                                     !.rc[i].matched =
                                        req[r].rc[i].cat \in DOMAIN categories])]
    /\ UNCHANGED <<books, nextCat, nextBook>>
    /\ UNCHANGED <<users, ureq>>

(***************************************************************************)
(* POST /api/books                                                         *)
(***************************************************************************)
\* what a handler does with the answer of Category.findById
AfterFindCategoryUnchecked(q, cats) ==
    IF q.category = BadId
    THEN Respond(q, CatchStatus(q.op, 0))
    ELSE [q EXCEPT !.newCat = q.category, !.pc = "save"]

AfterFindCategory(q, cats) ==
    IF q.category = BadId
    THEN Respond(q, CatchStatus(q.op, 0))
    ELSE IF q.category \notin DOMAIN cats
    THEN Respond(q, 404)
    ELSE [q EXCEPT !.newCat = q.category, !.pc = "save"]

FindCategoryForNewBook(r, In) ==
    /\ Free(r)
    /\ nextBook + Cardinality({q \in Req : req[q].op = "createBook" /\ InFlight(q)
                                              /\ req[q].pc = "save"}) <= MaxBook
    /\ \E rawTitle \in In.titles, rawAuthor \in In.authors, rawIsbn \in In.isbns,
          categoryId \in CatIdInputs(In) \cup In.noId, valid \in In.valid :
         LET title == normaliseString(rawTitle)
             author == normaliseString(rawAuthor)
             isbn == normaliseString(rawIsbn)
             q == [Arrived("createBook", In) EXCEPT !.title = title, !.author = author,
                               !.isbn = isbn, !.category = categoryId, !.valid = valid]
         IN  req' = [req EXCEPT ![r] =
                IF Falsy(title) \/ Falsy(author) \/ Falsy(isbn) \/ categoryId = NoId
                THEN Respond(q, 400)
                ELSE AfterFindCategory(q, categories)]
    /\ UNCHANGED <<categories, books, nextCat, nextBook>>
    /\ UNCHANGED <<users, ureq>>

SaveNewBook(r) ==
    /\ req[r].op = "createBook" /\ req[r].pc = "save"
    /\ IF ~req[r].valid
       THEN \* a ValidationError (publishedYear or stock below 0)
            /\ req' = [req EXCEPT ![r] = Respond(req[r], CatchStatus(req[r].op, 0))]
            /\ UNCHANGED <<books, nextBook>>
       ELSE IF IsbnTaken(books, req[r].isbn, NoId)
       THEN /\ req' = [req EXCEPT ![r] = Respond(req[r], CatchStatus(req[r].op, 11000))]
            /\ UNCHANGED <<books, nextBook>>
       ELSE LET book == [isbn |-> req[r].isbn, title |-> req[r].title,
                         author |-> req[r].author, category |-> req[r].newCat]
            IN  /\ books' = Insert(books, nextBook, book)
                /\ nextBook' = nextBook + 1
                /\ req' = [req EXCEPT ![r] =
                      Written(req[r], nextBook, <<RcStart(req[r].newCat), RcOff>>)]
    /\ UNCHANGED <<categories, nextCat>>
    /\ UNCHANGED <<users, ureq>>

\* book.populate("category", "name description"), then the response
Populate(r) ==
    /\ req[r].op \in {"createBook", "updateBook"} /\ req[r].pc = "populate"
    /\ req' = [req EXCEPT ![r] =
          Respond(req[r], IF req[r].op = "createBook" THEN 201 ELSE 200)]
    /\ UNCHANGED <<categories, books, nextCat, nextBook>>
    /\ UNCHANGED <<users, ureq>>

(***************************************************************************)
(* PUT /api/books/:id                                                      *)
(***************************************************************************)
FindBook(r, In) ==
    /\ Free(r)
    /\ \E id \in BookIdInputs(In), rawTitle \in In.titles, rawAuthor \in In.authors,
          rawIsbn \in In.newIsbns, incomingCategory \in CatIdInputs(In) \cup In.noId,
          valid \in In.valid :
         LET q == [Arrived("updateBook", In) EXCEPT !.id = id,
                               !.title = normaliseString(rawTitle),
                               !.author = normaliseString(rawAuthor),
                               !.isbn = normaliseString(rawIsbn),
                               !.category = incomingCategory, !.valid = valid]
         IN  req' = [req EXCEPT ![r] =
                IF id = BadId THEN Respond(q, CatchStatus(q.op, 0))
                ELSE IF id \notin DOMAIN books THEN Respond(q, 404)
                ELSE LET book == books[id]
                         loaded == [q EXCEPT !.book = book, !.prevCat = book.category,
                                             !.newCat = book.category]
                     IN  IF incomingCategory # NoId /\ incomingCategory # book.category
                         THEN [loaded EXCEPT !.pc = "findCategory"]
                         ELSE [loaded EXCEPT !.pc = "save"]]
    /\ UNCHANGED <<categories, books, nextCat, nextBook>>
    /\ UNCHANGED <<users, ureq>>

FindCategoryForUpdate(r) ==
    /\ req[r].op = "updateBook" /\ req[r].pc = "findCategory"
    /\ req' = [req EXCEPT ![r] = AfterFindCategory(req[r], categories)]
    /\ UNCHANGED <<categories, books, nextCat, nextBook>>
    /\ UNCHANGED <<users, ureq>>

\* book.set({ ...updatedFields, category: newCategoryId }) on the loaded document
BookSet(book, q) ==
    [isbn |-> IF InBody(q.isbn) THEN q.isbn ELSE book.isbn,
     title |-> IF InBody(q.title) THEN q.title ELSE book.title,
     author |-> IF InBody(q.author) THEN q.author ELSE book.author,
     category |-> q.newCat]

\* book.save() of a loaded document writes the paths that were modified
SaveModified(stored, loaded, changed) ==
    [f \in DOMAIN stored |-> IF changed[f] # loaded[f] THEN changed[f] ELSE stored[f]]

\* the recalculateBookCount calls PUT /api/books/:id starts after the save
RecalcsAfterUpdateNewOnly(q) == <<RcStart(q.newCat), RcOff>>

RecalcsAfterUpdateAlwaysBoth(q) == <<RcStart(q.newCat), RcStart(q.prevCat)>>

RecalcsAfterUpdate(q) ==
    IF q.category # NoId /\ q.category # q.prevCat
    THEN <<RcStart(q.newCat), RcStart(q.prevCat)>>
    ELSE <<RcStart(q.newCat), RcOff>>

SaveBook(r) ==
    /\ req[r].op = "updateBook" /\ req[r].pc = "save"
    /\ LET id == req[r].id
           changed == BookSet(req[r].book, req[r])
       IN  IF ~req[r].valid \/ changed.title = <<>> \/ changed.author = <<>>
              \/ changed.isbn = <<>> \/ id \notin DOMAIN books
           THEN \* a ValidationError, or DocumentNotFoundError for a book deleted
                \* since it was loaded
                /\ req' = [req EXCEPT ![r] = Respond(req[r], CatchStatus(req[r].op, 0))]
                /\ UNCHANGED books
           ELSE IF changed.isbn # req[r].book.isbn /\ IsbnTaken(books, changed.isbn, id)
           THEN /\ req' = [req EXCEPT ![r] =
                      Respond(req[r], CatchStatus(req[r].op, 11000))]
                /\ UNCHANGED books
           ELSE /\ books' = [books EXCEPT ![id] = SaveModified(@, req[r].book, changed)]
                /\ req' = [req EXCEPT ![r] =
                      Written(req[r], id, RecalcsAfterUpdate(req[r]))]
    /\ UNCHANGED <<categories, nextCat, nextBook>>
    /\ UNCHANGED <<users, ureq>>

(***************************************************************************)
(* DELETE /api/books/:id                                                   *)
(***************************************************************************)
DeleteBook(r, In) ==
    /\ Free(r)
    /\ \E id \in BookIdInputs(In) :
         LET q == [Arrived("deleteBook", In) EXCEPT !.id = id]
         IN  IF id = BadId
             THEN /\ req' = [req EXCEPT ![r] = Respond(q, CatchStatus(q.op, 0))]
                  /\ UNCHANGED books
             ELSE IF id \notin DOMAIN books
             THEN /\ req' = [req EXCEPT ![r] = Respond(q, 404)]
                  /\ UNCHANGED books
             ELSE /\ books' = Remove(books, id)
                  /\ req' = [req EXCEPT ![r] =
                        Written([q EXCEPT !.prevCat = books[id].category], id,
                                <<RcStart(books[id].category), RcOff>>)]
    /\ UNCHANGED <<categories, nextCat, nextBook>>
    /\ UNCHANGED <<users, ureq>>

(***************************************************************************)
(* The read-only routes.  GET /api/categories and GET /api/books have no   *)
(* try/catch; GET /api/categories/:id and GET /api/books/:id have one.     *)
(***************************************************************************)
Lists == {"listCategories", "listBooks"}

List(r, In) ==
    /\ Free(r)
    /\ \E op \in Lists :
         req' = [req EXCEPT ![r] = Respond(Arrived(op, In), 200)]
    /\ UNCHANGED <<categories, books, nextCat, nextBook>>
    /\ UNCHANGED <<users, ureq>>

Get(r, In) ==
    /\ Free(r)
    /\ \/ \E id \in CatIdInputs(In) :
            LET q == [Arrived("getCategory", In) EXCEPT !.id = id]
            IN  req' = [req EXCEPT ![r] =
                   IF id = BadId THEN Respond(q, CatchStatus(q.op, 0))
                   ELSE IF id \notin DOMAIN categories THEN Respond(q, 404)
                   ELSE Respond(q, 200)]
       \/ \E id \in BookIdInputs(In) :
            LET q == [Arrived("getBook", In) EXCEPT !.id = id]
            IN  req' = [req EXCEPT ![r] =
                   IF id = BadId THEN Respond(q, CatchStatus(q.op, 0))
                   ELSE IF id \notin DOMAIN books THEN Respond(q, 404)
                   ELSE Respond(q, 200)]
    /\ UNCHANGED <<categories, books, nextCat, nextBook>>
    /\ UNCHANGED <<users, ureq>>

(***************************************************************************)
(* A store operation that fails (the store is unreachable): the operation  *)
(* has no effect and the handler's catch block answers.                    *)
(***************************************************************************)
StoreOps == {"save", "findByIdAndDelete", "findCategory", "populate"}

Handlers == {"createCategory", "updateCategory", "deleteCategory",
             "createBook", "updateBook", "deleteBook", "getCategory", "getBook"}

\* the first store operation of a request fails
FirstFails(r, In) ==
    /\ Free(r)
    /\ \E op \in Handlers :
         req' = [req EXCEPT ![r] =
            Respond(Arrived(op, In), CatchStatus(op, 0))]
    /\ UNCHANGED <<categories, books, nextCat, nextBook>>
    /\ UNCHANGED <<users, ureq>>

StoreFails(r) ==
    /\ req[r].pc \in StoreOps
    /\ req' = [req EXCEPT ![r] = Respond(req[r], CatchStatus(req[r].op, 0))]
    /\ UNCHANGED <<categories, books, nextCat, nextBook>>
    /\ UNCHANGED <<users, ureq>>

\* the count or the write of a recalculateBookCount call fails: the await in the
\* handler throws (Promise.all rejects at once, its other call runs on)
RecalcFails(r, i) ==
    /\ req[r].pc = "recalc" /\ req[r].rc[i].pc \in {"count", "write"}
    /\ LET q == [req[r] EXCEPT !.rc[i].pc = "failed", !.rc[i].total = 0,
                               !.status = IF @ = 0 THEN CatchStatus(req[r].op, 0) ELSE @]
       IN  req' = [req EXCEPT ![r] = IF Settled(q.rc) THEN Over(q) ELSE q]
    /\ UNCHANGED <<categories, books, nextCat, nextBook>>
    /\ UNCHANGED <<users, ureq>>

\* the rejection of an async handler that has no try/catch: Express 5 forwards it
\* to the error-handling middleware, which answers 500; Express 4 leaves it
\* unhandled and the request gets no response (the source does not fix the
\* version)
Unhandled(q, forwarded) == IF forwarded THEN Respond(q, 500) ELSE Over(q)

ListFails(r, In) ==
    /\ Free(r)
    /\ \E op \in Lists, forwarded \in BOOLEAN :
         req' = [req EXCEPT ![r] = Unhandled(Arrived(op, In), forwarded)]
    /\ UNCHANGED <<categories, books, nextCat, nextBook>>
    /\ UNCHANGED <<users, ureq>>

\* the connection is over: the slot serves the next request
Finish(r) ==
    /\ req[r].pc = "done"
    /\ req' = [req EXCEPT ![r] = Idle]
    /\ UNCHANGED <<categories, books, nextCat, nextBook>>
    /\ UNCHANGED <<users, ureq>>

(***************************************************************************)
(* POST /api/users/register                                                *)
(***************************************************************************)
\* what the handler does with the answer of User.findOne
AfterFindOne(q, existing) ==
    IF existing # {}
    THEN UAnswer(q, 409, Body("User with that email or username already exists.", <<>>))
    ELSE [q EXCEPT !.pc = "save"]

\* the catch block of the handler
RegisterCatchStatus(name, code) == IF name = "ValidationError" THEN 400 ELSE 500

FindOneUser(r, In) ==
    /\ UFree(r)
    /\ Cardinality(DOMAIN users)
         + Cardinality({q \in Req : ureq[q].op = "register" /\ ureq[q].pc = "save"})
         < MaxUser
    /\ \E email \in In.emails, userName \in In.userNames, password \in In.passwords,
          confirmPassword \in In.passwords, valid \in In.valid :
         LET q == [UIdle EXCEPT !.op = "register", !.email = email,
                                !.userName = userName, !.password = password,
                                !.confirmPassword = confirmPassword, !.valid = valid]
         IN  ureq' = [ureq EXCEPT ![r] =
                IF ~PasswordsMatch(password, confirmPassword)
                THEN UAnswer(q, 400, Body("Password and Confirm Password do not match.",
                                          <<>>))
                ELSE AfterFindOne(q, FindOneByEither(users, email, userName))]
    /\ UNCHANGED <<categories, books, nextCat, nextBook, req, users>>

SaveUser(r) ==
    /\ ureq[r].op = "register" /\ ureq[r].pc = "save"
    /\ LET q == ureq[r]
           id == Cardinality(DOMAIN users) + 1
           user == [userName |-> CastUserName(q.userName), email |-> CastEmail(q.email),
                    password |-> bcryptHash(q.password)]
       IN  IF ~q.valid
           THEN /\ ureq' = [ureq EXCEPT ![r] =
                     UAnswer(q, RegisterCatchStatus("ValidationError", 0),
                             Body("validation", <<>>))]
                /\ UNCHANGED users
           ELSE IF EmailTaken(users, user.email, NoId)
                   \/ UserNameTaken(users, user.userName, NoId)
           THEN /\ ureq' = [ureq EXCEPT ![r] =
                     UAnswer(q, RegisterCatchStatus("MongoServerError", 11000),
                             Body("Server error during registration.", <<>>))]
                /\ UNCHANGED users
           ELSE /\ users' = Insert(users, id, user)
                /\ ureq' = [ureq EXCEPT ![r] =
                     UAnswer([q EXCEPT !.id = id], 201,
                             Body("User registered successfully!",
                                  <<UserResponse(users', id)>>))]
    /\ UNCHANGED <<categories, books, nextCat, nextBook, req>>

(***************************************************************************)
(* PUT /api/users/:id                                                      *)
(***************************************************************************)
\* updateData applied by findByIdAndUpdate: the body without password and
\* confirmPassword, and the hash of a password that is not empty
UserUpdated(user, q) ==
    [userName |-> IF InBody(q.userName) THEN CastUserName(q.userName)
                  ELSE user.userName,
     email |-> IF InBody(q.email) THEN CastEmail(q.email) ELSE user.email,
     password |-> IF Falsy(q.password) THEN user.password
                  ELSE bcryptHash(q.password)]

UpdateUser(r, In) ==
    /\ UFree(r)
    /\ \E id \in DOMAIN users \cup In.ids, email \in In.newEmails,
          userName \in In.newUserNames, password \in In.newPasswords,
          confirmPassword \in In.passwords, valid \in In.valid :
         LET q == [UIdle EXCEPT !.op = "updateUser", !.id = id, !.email = email,
                                !.userName = userName, !.password = password,
                                !.confirmPassword = confirmPassword, !.valid = valid]
         IN  IF ~Falsy(password) /\ ~PasswordsMatch(password, confirmPassword)
             THEN /\ ureq' = [ureq EXCEPT ![r] =
                       UAnswer(q, 400,
                               Body("Password and Confirm Password do not match.", <<>>))]
                  /\ UNCHANGED users
             ELSE IF id = BadId \/ ~valid
             THEN \* CastError or ValidationError
                  /\ ureq' = [ureq EXCEPT ![r] = UAnswer(q, 400, Body("invalid", <<>>))]
                  /\ UNCHANGED users
             ELSE IF id \notin DOMAIN users
             THEN /\ ureq' = [ureq EXCEPT ![r] = UAnswer(q, 404, UserNotFound)]
                  /\ UNCHANGED users
             ELSE IF \/ InBody(email) /\ EmailTaken(users, CastEmail(email), id)
                     \/ InBody(userName)
                        /\ UserNameTaken(users, CastUserName(userName), id)
             THEN /\ ureq' = [ureq EXCEPT ![r] =
                       UAnswer(q, 500, Body("Server error during update.", <<>>))]
                  /\ UNCHANGED users
             ELSE /\ users' = [users EXCEPT ![id] = UserUpdated(@, q)]
                  /\ ureq' = [ureq EXCEPT ![r] =
                       UAnswer(q, 200, Body("User updated successfully.",
                                            <<UserResponse(users', id)>>))]
    /\ UNCHANGED <<categories, books, nextCat, nextBook, req>>

(***************************************************************************)
(* POST /api/users/login: one store operation, User.findOne; what follows  *)
(* it reads the document it returned.                                      *)
(***************************************************************************)
\* the users the query of the handler finds: by email if the body has one, else
\* by userName
LoginQuery(us, email, userName) ==
    IF ~Falsy(email)
    THEN {u \in DOMAIN us : us[u].email = CastEmail(Trim(toLowerCase(email)))}
    ELSE {u \in DOMAIN us : us[u].userName = CastUserName(Trim(userName))}

Login(r, In) ==
    /\ UFree(r)
    /\ \E email \in In.loginEmails, userName \in In.loginUserNames,
          password \in In.loginPasswords :
         LET q == [UIdle EXCEPT !.op = "login", !.email = email,
                                !.userName = userName, !.password = password]
             found == IF Falsy(email) /\ Falsy(userName) THEN {}
                      ELSE LoginQuery(users, email, userName)
         IN  ureq' = [ureq EXCEPT ![r] =
                IF Falsy(password) \/ (Falsy(email) /\ Falsy(userName))
                THEN UAnswer(q, 400,
                             Body("Provide email or username along with password.", <<>>))
                ELSE IF found = {}
                THEN UAnswer(q, LoginNoUser.status, LoginNoUser.body)
                ELSE LET id == CHOOSE u \in found : TRUE
                         m == [q EXCEPT !.matched = TRUE, !.id = id]
                     IN  IF ~bcryptCompare(password, users[id].password)
                         THEN UAnswer(m, 401, InvalidCredentials)
                         ELSE UAnswer(m, 200, Body("Login successful!",
                                                   <<UserResponse(users, id)>>))]
    /\ UNCHANGED <<categories, books, nextCat, nextBook, req, users>>

\* the connection is over: the slot serves the next request
FinishUser(r) ==
    /\ ureq[r].pc = "done"
    /\ ureq' = [ureq EXCEPT ![r] = UIdle]
    /\ UNCHANGED <<categories, books, nextCat, nextBook, req, users>>

(***************************************************************************)
(* Request bodies and specifications.                                      *)
(***************************************************************************)
Inputs ==
    [names |-> {Undef, <<"a">>, <<" ", "a">>, <<"b">>, <<" ">>},
     descs |-> {Undef, <<"d", " ">>},
     titles |-> {Undef, <<"t">>, <<" ">>},
     authors |-> {Undef, <<"w">>},
     isbns |-> {Undef, <<"1">>, <<"2", " ">>, <<>>},
     newIsbns |-> {Undef, <<"1">>, <<"2", " ">>, <<>>},
     valid |-> BOOLEAN,
     counts |-> {<<>>, <<5>>},
     ids |-> {AbsentId, BadId},
     noId |-> {NoId},
     otherBooks |-> FALSE,
     history |-> TRUE]

SmallInputs ==
    [names |-> {<<"a">>, <<" ", "b">>},
     descs |-> {Undef},
     titles |-> {<<"t">>},
     authors |-> {<<"w">>},
     isbns |-> {<<"1">>, <<"2", " ">>},
     newIsbns |-> {Undef},
     valid |-> {TRUE},
     counts |-> {<<>>},
     ids |-> {},
     noId |-> {NoId},
     otherBooks |-> TRUE,
     history |-> FALSE]

\* the bodies of the runs in which store operations fail
FailInputs ==
    [SmallInputs EXCEPT !.ids = {AbsentId, BadId}, !.otherBooks = FALSE,
                        !.history = TRUE]

Steps(r) ==
    \/ DeleteCategory(r)
    \/ SaveNewBook(r)
    \/ FindCategoryForUpdate(r)
    \/ SaveBook(r)
    \/ \E i \in 1..2 : RecalcCount(r, i)
    \/ \E i \in 1..2 : RecalcWrite(r, i)
    \/ Populate(r)
    \/ Finish(r)

Handle(r, In) ==
    \/ CreateCategory(r, In)
    \/ UpdateCategory(r, In)
    \/ ExistsBooks(r, In)
    \/ FindCategoryForNewBook(r, In)
    \/ FindBook(r, In)
    \/ DeleteBook(r, In)
    \/ Steps(r)

Fail(r, In) ==
    \/ FirstFails(r, In)
    \/ StoreFails(r)
    \/ \E i \in 1..2 : RecalcFails(r, i)
    \/ ListFails(r, In)

\* requests one at a time, every store operation succeeds
Next == Handle(1, Inputs)

Spec == Init /\ [][Next]_vars

\* requests one at a time, store operations may fail
NextFail ==
    \/ Handle(1, FailInputs)
    \/ List(1, FailInputs)
    \/ Get(1, FailInputs)
    \/ Fail(1, FailInputs)

SpecFail == Init /\ [][NextFail]_vars

\* concurrent requests, every store operation succeeds
NextConc ==
    \E r \in Req :
        \/ CreateCategory(r, SmallInputs)
        \/ ExistsBooks(r, SmallInputs)
        \/ FindCategoryForNewBook(r, SmallInputs)
        \/ FindBook(r, SmallInputs)
        \/ DeleteBook(r, SmallInputs)
        \/ Steps(r)

SpecConc == Init /\ [][NextConc]_vars

\* the bodies of the requests to the user service
UserInputs ==
    [emails |-> {<<"e">>, <<"E", " ">>},
     userNames |-> {<<"u">>, <<"v">>},
     passwords |-> {<<"p">>, <<"q">>},
     valid |-> BOOLEAN,
     ids |-> {AbsentId, BadId},
     newEmails |-> {Undef, <<"E", " ">>},
     newUserNames |-> {Undef},
     newPasswords |-> {Undef, <<>>, <<"p">>, <<"q">>},
     loginEmails |-> {Undef, <<"E", " ">>, <<"g">>},
     loginUserNames |-> {Undef, <<"u">>},
     loginPasswords |-> {Undef, <<"p">>, <<"q">>}]

\* concurrent requests to the user service, every store operation succeeds
NextUser ==
    \E r \in Req :
        \/ FindOneUser(r, UserInputs)
        \/ SaveUser(r)
        \/ UpdateUser(r, UserInputs)
        \/ Login(r, UserInputs)
        \/ FinishUser(r)

SpecUser == Init /\ [][NextUser]_vars

(***************************************************************************)
(* Properties.                                                             *)
(***************************************************************************)
\* the number of stored books whose category field is c
RefCount(c) == Cardinality({b \in DOMAIN books : books[b].category = c})

CountIsRight(c) == categories[c].bookCount = RefCount(c)

BookOps == {"createBook", "updateBook", "deleteBook"}

Answered(r, op, status) ==
    req[r].op = op /\ req[r].pc = "done" /\ req[r].status = status

\* a well-formed id that no category has
AbsentCategory(id) == id >= AbsentId /\ id \notin DOMAIN categories

\* C1: with requests run one at a time from the empty store and every store
\* operation succeeding, whenever no request is running every existing category's
\* bookCount is the number of stored books that refer to it.
C1_CountsRightWhenQuiescent ==
    Quiescent => \A c \in DOMAIN categories : CountIsRight(c)

\* C1 witness: a book has been moved into a category that now holds two books
C1_Witness ==
    /\ Answered(1, "updateBook", 200)
    /\ req[1].newCat # req[1].prevCat
    /\ req[1].newCat \in DOMAIN categories
    /\ categories[req[1].newCat].bookCount = 2
    /\ RefCount(req[1].newCat) = 2

\* C2: (the claim as stated) with concurrent requests that act on pairwise
\* different books, every store operation succeeding, once all of them have
\* completed no category's bookCount differs from the number of books that refer
\* to it.
C2_ConvergesWhenQuiescent ==
    (\A r \in Req : req[r].pc \in {"idle", "done"})
        => ~ \E c \in DOMAIN categories : categories[c].bookCount # RefCount(c)

\* C3: DELETE /api/categories/:id whose Book.exists finds a book referring to the
\* category answers 409 and changes neither collection.
C3_ReferencedCategoryKept ==
    [][\A r \in Req :
        (req[r].op = "idle" /\ req'[r].op = "deleteCategory"
            /\ BookExists(books, req'[r].id))
        => /\ req'[r].pc = "done" /\ req'[r].status = 409
           /\ categories' = categories
           /\ books' = books]_vars

\* C3 witness: a delete was answered 409, the category and a book referring to it
\* are stored
C3_Witness ==
    /\ Answered(1, "deleteCategory", 409)
    /\ req[1].id \in DOMAIN categories
    /\ RefCount(req[1].id) >= 1

\* C4: when PUT /api/books/:id has moved a book from category A to another
\* category B and answered 200 (no other request running), the book refers to B
\* and the bookCount of A and of B are the numbers of books that refer to them.
C4_BothRecomputed ==
    \A r \in Req :
        (Answered(r, "updateBook", 200) /\ req[r].newCat # req[r].prevCat)
        => /\ req[r].id \in DOMAIN books
           /\ books[req[r].id].category = req[r].newCat
           /\ req[r].newCat \in DOMAIN categories
           /\ req[r].prevCat \in DOMAIN categories
           /\ CountIsRight(req[r].newCat)
           /\ CountIsRight(req[r].prevCat)

\* C4 witness: the only book of A has been moved to the empty B; A counts 0, B 1
C4_Witness ==
    /\ Answered(1, "updateBook", 200)
    /\ req[1].newCat # req[1].prevCat
    /\ req[1].drift = {}
    /\ Cardinality(DOMAIN books) = 1
    /\ req[1].prevCat \in DOMAIN categories /\ req[1].newCat \in DOMAIN categories
    /\ categories[req[1].prevCat].bookCount = 0
    /\ categories[req[1].newCat].bookCount = 1

\* the categories whose recalculateBookCount call a request has completed
Recomputed(r) == {req[r].rc[i].cat : i \in {j \in 1..2 : req[r].rc[j].pc = "done"}}

Succeeded(r) ==
    req[r].op \in BookOps /\ req[r].pc = "done" /\ req[r].status \in {200, 201}

\* C5: whatever the bookCount values were before, a book request that runs alone
\* and succeeds leaves every category it recomputed with bookCount equal to the
\* number of books that refer to it.
C5_SelfHealing ==
    \A r \in Req :
        Succeeded(r) =>
            \A c \in Recomputed(r) \cap DOMAIN categories : CountIsRight(c)

\* C5 witness: a category that was drifted when the request arrived has been
\* recomputed by it
C5_Witness ==
    /\ Succeeded(1)
    /\ \E c \in Recomputed(1) \cap DOMAIN categories :
          c \in req[1].drift /\ CountIsRight(c)

\* C6: recalculateBookCount twice in succession gives the store that once gives,
\* for every category id (stored, absent, missing) in every reachable store.
C6_Idempotent ==
    \A c \in CatIds \cup {AbsentId, NoId} :
        recalculateBookCount(recalculateBookCount(categories, books, c), books, c)
            = recalculateBookCount(categories, books, c)

\* C6 witness: a store in which the first call changes the bookCount of a
\* category that books refer to
C6_Witness ==
    \E c \in DOMAIN categories :
        /\ RefCount(c) >= 1
        /\ recalculateBookCount(categories, books, c) # categories

\* C7: the findByIdAndDelete of DELETE /api/categories/:id removes the category
\* and answers 200 whether or not a book refers to it by then: the check made
\* before it is not repeated.
C7_DeleteIsUnconditional ==
    [][\A r \in Req :
        (req[r].op = "deleteCategory" /\ req[r].pc = "findByIdAndDelete"
            /\ req'[r].pc = "done" /\ req[r].id \in DOMAIN categories)
        => /\ req[r].id \notin DOMAIN categories'
           /\ req'[r].status = 200]_vars

\* C7 witness: the delete was answered 200 and a stored book refers to the
\* category it removed
C7_Witness ==
    \E r \in Req :
        /\ Answered(r, "deleteCategory", 200)
        /\ req[r].id \notin DOMAIN categories
        /\ RefCount(req[r].id) >= 1

\* C8: once a recalculateBookCount call of a book request has failed, the request
\* is answered with a failure status and the book write stands: the created or
\* updated book is stored with its category, the deleted book is gone.
C8_NoRollback ==
    \A r \in Req :
        (req[r].op \in BookOps /\ \E i \in 1..2 : req[r].rc[i].pc = "failed")
        => /\ req[r].status >= 400
           /\ req[r].op \in {"createBook", "updateBook"}
                => /\ req[r].id \in DOMAIN books
                   /\ books[req[r].id].category = req[r].newCat
           /\ req[r].op = "deleteBook" => req[r].id \notin DOMAIN books

\* C8 witness: a book was moved to another category and the recount of its
\* former category failed
C8_Witness ==
    /\ req[1].op = "updateBook" /\ req[1].pc = "done"
    /\ req[1].rc[2].pc = "failed"
    /\ req[1].newCat # req[1].prevCat
    /\ req[1].id \in DOMAIN books
    /\ books[req[1].id].category = req[1].newCat

\* C9: a step of a recalculateBookCount call whose category is not stored changes
\* neither collection and does not fail the call: the request goes on to its
\* success response.
C9_MissingCategoryNoOp ==
    [][\A r \in Req : \A i \in 1..2 :
        (req[r].pc = "recalc" /\ req[r].rc[i].pc \in {"count", "write"}
            /\ req'[r].rc[i] # req[r].rc[i]
            /\ req[r].rc[i].cat \notin DOMAIN categories)
        => /\ categories' = categories
           /\ books' = books
           /\ req'[r].rc[i].pc \in {"write", "done"}
           /\ req'[r].status \in {0, 200}]_vars

\* C9 witness: a request has succeeded whose findByIdAndUpdate matched no category
C9_Witness ==
    \E r \in Req :
        /\ Succeeded(r)
        /\ req[r].rc[1].pc = "done" /\ ~req[r].rc[1].matched

\* C10: POST /api/books with its required fields and a well-formed category id
\* that no category has, and PUT /api/books/:id of a stored book with such a new
\* category id, answer 404; no step of either request up to that answer changes
\* a category or a book.
C10_UnknownCategoryRejected ==
    [][\A r \in Req :
        /\ (req[r].op = "idle" /\ req'[r].op = "createBook"
              /\ ~Falsy(req'[r].title) /\ ~Falsy(req'[r].author)
              /\ ~Falsy(req'[r].isbn) /\ AbsentCategory(req'[r].category))
           => /\ req'[r].pc = "done" /\ req'[r].status = 404
              /\ categories' = categories /\ books' = books
        /\ (req'[r].op = "updateBook" /\ req'[r].pc = "findCategory")
           => (categories' = categories /\ books' = books)
        /\ (req[r].op = "updateBook" /\ req[r].pc = "findCategory"
              /\ req'[r] # req[r] /\ AbsentCategory(req[r].category))
           => /\ req'[r].pc = "done" /\ req'[r].status = 404
              /\ categories' = categories /\ books' = books]_vars

\* C10 witness: the update of a stored book naming a category that is not stored
\* (any more) was answered 404
C10_Witness ==
    /\ Answered(1, "updateBook", 404)
    /\ req[1].id \in DOMAIN books
    /\ AbsentCategory(req[1].category)
    /\ books[req[1].id].category # req[1].category

\* C11: (the claim as stated) when a store operation of a book or category
\* handler fails with an error that is neither a validation error, a duplicate
\* key nor a missing record, the request is answered 500.
C11_StoreFailureAnswers500 ==
    [][\A r \in Req :
        (\/ FirstFails(r, FailInputs)
         \/ StoreFails(r)
         \/ \E i \in 1..2 : RecalcFails(r, i))
        => req'[r].status = 500]_vars

UniqueNames ==
    \A c, d \in DOMAIN categories : c # d => categories[c].name # categories[d].name

UniqueIsbns ==
    \A b, d \in DOMAIN books : b # d => books[b].isbn # books[d].isbn

NameInUse(name, except) ==
    \E c \in DOMAIN categories : c # except /\ categories[c].name = name

IsbnInUse(isbn, except) ==
    \E b \in DOMAIN books : b # except /\ books[b].isbn = isbn

\* request r is answered 409 by this step, which changes no category and no book
Refused(r) ==
    /\ req'[r].pc = "done" /\ req'[r].status = 409
    /\ categories' = categories
    /\ books' = books

\* C12: in every reachable state no two categories have the same name and no two
\* books the same isbn; a category create or update (of a stored category) whose
\* name another category has, and the save of an otherwise valid book create or
\* update whose isbn another book has, are answered 409 and change no category
\* and no book.
C12_UniquenessKept ==
    /\ [](UniqueNames /\ UniqueIsbns)
    /\ [][\A r \in Req :
            /\ (req[r].op = "idle" /\ req'[r].op = "createCategory"
                  /\ req'[r].name \notin {Undef, <<>>}
                  /\ NameInUse(req'[r].name, NoId))
               => Refused(r)
            /\ (req[r].op = "idle" /\ req'[r].op = "updateCategory"
                  /\ req'[r].id \in DOMAIN categories
                  /\ req'[r].name \notin {Undef, <<>>}
                  /\ NameInUse(req'[r].name, req'[r].id))
               => Refused(r)
            /\ (req[r].op = "createBook" /\ req[r].pc = "save" /\ req'[r] # req[r]
                  /\ req[r].valid /\ IsbnInUse(req[r].isbn, NoId))
               => Refused(r)
            /\ (req[r].op = "updateBook" /\ req[r].pc = "save" /\ req'[r] # req[r]
                  /\ req[r].valid /\ req[r].id \in DOMAIN books
                  /\ req[r].title # <<>> /\ req[r].author # <<>>
                  /\ req[r].isbn \notin {Undef, <<>>}
                  /\ IsbnInUse(req[r].isbn, req[r].id))
               => Refused(r)]_vars

\* C12 witness: the update of a stored book that asked for another stored
\* category and for the isbn of another book was answered 409; the book is still
\* in its former category
C12_Witness ==
    /\ Answered(1, "updateBook", 409)
    /\ req[1].id \in DOMAIN books
    /\ IsbnInUse(req[1].isbn, req[1].id)
    /\ req[1].category \in DOMAIN categories
    /\ books[req[1].id].category # req[1].category

\* a required field that is missing or blank
Missing(value) == value \in {Undef, <<>>}

\* request r is answered 400 by this step, which is its first: nothing is
\* written and no recompute is started
Rejected(r) ==
    /\ req'[r].pc = "done" /\ req'[r].status = 400
    /\ \A i \in 1..2 : req'[r].rc[i].pc = "off"
    /\ categories' = categories
    /\ books' = books

\* C13: POST /api/books lacking title, author, isbn or category id, and POST
\* /api/categories lacking a name (missing, or blank once trimmed), are answered
\* 400 by their first step: nothing is created and no recompute is started.
C13_InvalidRejected ==
    [][\A r \in Req :
        /\ (req[r].op = "idle" /\ req'[r].op = "createBook"
              /\ (\/ Missing(req'[r].title) \/ Missing(req'[r].author)
                  \/ Missing(req'[r].isbn) \/ req'[r].category = NoId))
           => Rejected(r)
        /\ (req[r].op = "idle" /\ req'[r].op = "createCategory"
              /\ Missing(req'[r].name))
           => Rejected(r)]_vars

\* C13 witness: a book create whose only fault is a blank isbn was answered 400
C13_Witness ==
    /\ Answered(1, "createBook", 400)
    /\ req[1].isbn = <<>>
    /\ ~Missing(req[1].title) /\ ~Missing(req[1].author)
    /\ req[1].category \in DOMAIN categories
    /\ req[1].valid

\* a well-formed id that no book has
AbsentBook(id) == id >= AbsentId /\ id \notin DOMAIN books

NoRecompute(r) == \A i \in 1..2 : req'[r].rc[i].pc = "off"

\* request r is answered 404 by this step, which writes nothing and starts no
\* recompute
NotFound(r) ==
    /\ req'[r].pc = "done" /\ req'[r].status = 404
    /\ NoRecompute(r)
    /\ categories' = categories
    /\ books' = books

\* C14: PUT and DELETE /api/books/:id for a well-formed id that no book has, and
\* PUT (with a name that is not blank) and DELETE /api/categories/:id for a
\* well-formed id that no category has and no book refers to, are answered 404;
\* no step of them writes a category or a book or starts a recompute.
C14_MissingTargetNotFound ==
    [][\A r \in Req :
        /\ (req[r].op = "idle" /\ req'[r].op \in {"updateBook", "deleteBook"}
              /\ AbsentBook(req'[r].id))
           => NotFound(r)
        /\ (req[r].op = "idle" /\ req'[r].op = "updateCategory"
              /\ AbsentCategory(req'[r].id) /\ req'[r].name # <<>>)
           => NotFound(r)
        /\ (req[r].op = "idle" /\ req'[r].op = "deleteCategory"
              /\ AbsentCategory(req'[r].id) /\ RefCount(req'[r].id) = 0)
           => /\ req'[r].pc = "findByIdAndDelete"
              /\ NoRecompute(r)
              /\ categories' = categories
              /\ books' = books
        /\ (req[r].op = "deleteCategory" /\ req[r].pc = "findByIdAndDelete"
              /\ req'[r] # req[r] /\ AbsentCategory(req[r].id))
           => NotFound(r)]_vars

\* C14 witness: the delete of a category that was stored once and is gone was
\* answered 404
C14_Witness ==
    /\ Answered(1, "deleteCategory", 404)
    /\ AbsentCategory(req[1].id)
    /\ req[1].id >= 1

\* C15: DELETE /api/books/:id of a stored book removes that book and leaves every
\* other book as it was; no later step of the request changes a book or a
\* category other than the one the book referred to; once it has answered 200
\* (no other request running) the book is absent and its former category, which
\* the request recomputed, has bookCount equal to the number of books that refer
\* to it.
C15_BookDeleted ==
    /\ [](\A r \in Req :
            Answered(r, "deleteBook", 200)
            => /\ req[r].id \notin DOMAIN books
               /\ req[r].rc[1].cat = req[r].prevCat /\ req[r].rc[1].pc = "done"
               /\ req[r].prevCat \in DOMAIN categories
               /\ CountIsRight(req[r].prevCat))
    /\ [][\A r \in Req :
            /\ (req[r].op = "idle" /\ req'[r].op = "deleteBook"
                  /\ req'[r].id \in DOMAIN books)
               => /\ DOMAIN books' = DOMAIN books \ {req'[r].id}
                  /\ \A b \in DOMAIN books' : books'[b] = books[b]
                  /\ req'[r].prevCat = books[req'[r].id].category
                  /\ categories' = categories
            /\ (req[r].op = "deleteBook" /\ req'[r].op = "deleteBook")
               => /\ books' = books
                  /\ DOMAIN categories' = DOMAIN categories
                  /\ \A c \in DOMAIN categories \ {req[r].prevCat} :
                        categories'[c] = categories[c]]_vars

\* C15 witness: one of the two books of a category was deleted, the category
\* counts the one that is left
C15_Witness ==
    /\ Answered(1, "deleteBook", 200)
    /\ RefCount(req[1].prevCat) = 1
    /\ req[1].prevCat \in DOMAIN categories
    /\ categories[req[1].prevCat].bookCount = 1

\* the body carries no category id, or the one the book already refers to
Unmoved(q) == q.category = NoId \/ q.category = q.prevCat

\* C16: a PUT /api/books/:id whose body does not change the category writes the
\* bookCount of no category other than the book's; once it has answered 200 the
\* book refers to the category it referred to before and the request has run
\* exactly one recompute, of that category.
C16_SameCategoryOneRecompute ==
    /\ [](\A r \in Req :
            (Answered(r, "updateBook", 200) /\ Unmoved(req[r]))
            => /\ req[r].id \in DOMAIN books
               /\ books[req[r].id].category = req[r].prevCat
               /\ req[r].rc[1].cat = req[r].prevCat /\ req[r].rc[1].pc = "done"
               /\ req[r].rc[2].pc = "off")
    /\ [][\A r \in Req :
            (req[r].op = "updateBook" /\ req[r].pc \in {"save", "recalc", "populate"}
                /\ Unmoved(req[r]))
            => /\ DOMAIN categories' = DOMAIN categories
               /\ \A c \in DOMAIN categories \ {req[r].prevCat} :
                     categories'[c] = categories[c]]_vars

\* C16 witness: an update whose body names the category the book is in was
\* answered 200, and another category holds a book
C16_Witness ==
    /\ Answered(1, "updateBook", 200)
    /\ req[1].category = req[1].prevCat /\ req[1].category # NoId
    /\ \E c \in DOMAIN categories : c # req[1].prevCat /\ RefCount(c) = 1

\* C17: PUT /api/categories/:id is one step that starts no recompute, changes no
\* book, adds and removes no category, changes no category's bookCount (whatever
\* bookCount the body carries) and leaves every other category as it was.
C17_CategoryUpdateFrame ==
    [][\A r \in Req :
        (req[r].op = "idle" /\ req'[r].op = "updateCategory")
        => /\ req'[r].pc = "done"
           /\ NoRecompute(r)
           /\ books' = books
           /\ DOMAIN categories' = DOMAIN categories
           /\ \A c \in DOMAIN categories :
                 /\ categories'[c].bookCount = categories[c].bookCount
                 /\ c # req'[r].id => categories'[c] = categories[c]]_vars

\* C17 witness: an update that carried a name and bookCount 5 was answered 200;
\* the category has the name and still counts its one book
C17_Witness ==
    /\ Answered(1, "updateCategory", 200)
    /\ req[1].bookCount = <<5>>
    /\ categories[req[1].id].name = req[1].name
    /\ categories[req[1].id].bookCount = 1
    /\ RefCount(req[1].id) = 1

\* C18: in every reachable state, under every interleaving of concurrent
\* requests, every category's bookCount is a non-negative integer.
C18_CountNonNegative ==
    \A c \in DOMAIN categories : categories[c].bookCount \in Nat

\* C18 witness: a delete has written a stale 0 to a category to which a book
\* refers
C18_Witness ==
    \E r \in Req :
        /\ Answered(r, "deleteBook", 200)
        /\ req[r].prevCat \in DOMAIN categories
        /\ categories[req[r].prevCat].bookCount = 0
        /\ RefCount(req[r].prevCat) >= 1

\* the categories once a recalculateBookCount call in flight has made the write
\* it still has to make (nothing else running)
Pending(cats, bks, rc) ==
    IF rc.pc = "count" THEN SetBookCount(cats, rc.cat, countDocuments(bks, rc.cat))
    ELSE IF rc.pc = "write" THEN SetBookCount(cats, rc.cat, rc.total)
    ELSE cats

\* the request is in the Promise.all of its two recalculateBookCount calls
TwoRecomputes(q) == q.op = "updateBook" /\ q.pc = "recalc" /\ q.rc[2].pc # "off"

AfterBoth(r) ==
    Pending(Pending(categories, books, req[r].rc[1]), books, req[r].rc[2])

\* C19: while a category-changing update runs its two recomputes (no other
\* request running) they are for distinct categories, finishing them in either
\* order gives the same categories, and no step of either call changes what the
\* categories will be once both have finished: every interleaving of their count
\* and write steps ends in the store that running one after the other gives.
C19_RecomputesCommute ==
    /\ [](\A r \in Req :
            TwoRecomputes(req[r])
            => /\ req[r].rc[1].cat # req[r].rc[2].cat
               /\ AfterBoth(r) =
                    Pending(Pending(categories, books, req[r].rc[2]), books,
                            req[r].rc[1]))
    /\ [][\A r \in Req :
            (TwoRecomputes(req[r]) /\ req'[r].op = "updateBook")
            => /\ AfterBoth(r)' = AfterBoth(r)
               /\ books' = books]_vars

\* C19 witness: the recompute of the former category has finished before the
\* recompute of the new category has written
C19_Witness ==
    /\ TwoRecomputes(req[1])
    /\ req[1].rc[2].pc = "done" /\ req[1].rc[1].pc = "write"
    /\ req[1].rc[1].total = 1
    /\ categories[req[1].rc[1].cat].bookCount = 0
    /\ categories[req[1].rc[2].cat].bookCount = 0

\* C20: (the claim as stated) every request whose handler is over has been
\* answered, a failing store operation answers the request in that step, and a
\* request that has been answered is not answered again.
C20_ExactlyOneResponse ==
    /\ [](\A r \in Req : req[r].pc = "done" => req[r].status # 0)
    /\ [][\A r \in Req :
            /\ (req[r].status = 0 /\ req'[r].rc # req[r].rc
                  /\ \E i \in 1..2 : req'[r].rc[i].pc = "failed")
               => req'[r].status # 0
            /\ req[r].status # 0
               => (req'[r].status = req[r].status \/ req'[r] = Idle)]_vars

\* every stored book refers to a stored category
Integrity == \A b \in DOMAIN books : books[b].category \in DOMAIN categories

\* C21: with requests run one at a time, in every reachable state every stored
\* book's category is the id of a stored category; a step that removes a category
\* is taken only when no book refers to it, and it changes no book.
C21_ReferencesKept ==
    /\ []Integrity
    /\ [][\A c \in DOMAIN categories :
            c \notin DOMAIN categories'
            => /\ RefCount(c) = 0
               /\ books' = books]_vars

\* C21 witness: a category was deleted while books are stored (in another one)
C21_Witness ==
    /\ Answered(1, "deleteCategory", 200)
    /\ req[1].id \notin DOMAIN categories
    /\ books # <<>>

\* cats and after are the same categories but for the bookCount of categoryId
OnlyCountOf(cats, after, categoryId) ==
    /\ DOMAIN after = DOMAIN cats
    /\ \A c \in DOMAIN cats :
          /\ after[c].name = cats[c].name
          /\ after[c].description = cats[c].description
          /\ c # categoryId => after[c].bookCount = cats[c].bookCount

\* C22: a step of a recalculateBookCount call for category C changes no book and
\* nothing of the categories but the bookCount of C, and so does the whole
\* call for every stored or absent id; for a missing id the call does not start
\* a store operation.
C22_RecalculateFrame ==
    /\ [](/\ \A c \in CatIds \cup {AbsentId, NoId} :
                OnlyCountOf(categories, recalculateBookCount(categories, books, c), c)
          /\ recalculateBookCount(categories, books, NoId) = categories
          /\ RcStart(NoId).pc = "done")
    /\ [][\A r \in Req : \A i \in 1..2 :
            (req[r].pc = "recalc" /\ req[r].rc[i].pc \in {"count", "write"}
                /\ req'[r].rc[i] # req[r].rc[i])
            => /\ books' = books
               /\ OnlyCountOf(categories, categories', req[r].rc[i].cat)]_vars

\* C22 witness: the call has written the count of a category that has a
\* description, and another category is stored
C22_Witness ==
    /\ req[1].pc = "populate" /\ req[1].rc[1].pc = "done"
    /\ req[1].rc[1].cat \in DOMAIN categories
    /\ categories[req[1].rc[1].cat].description # Undef
    /\ categories[req[1].rc[1].cat].bookCount = 2
    /\ Cardinality(DOMAIN categories) = 2

\* C23: a category enters the store with bookCount 0 and no book referring to
\* it, whatever bookCount the body of POST /api/categories carries, and the
\* bookCount of a stored category changes only in the write step of a
\* recalculateBookCount call for that category.
C23_CountNotClientSettable ==
    [][\A c \in DOMAIN categories' :
        /\ c \notin DOMAIN categories
           => /\ categories'[c].bookCount = 0
              /\ \A b \in DOMAIN books' : books'[b].category # c
        /\ (c \in DOMAIN categories
              /\ categories'[c].bookCount # categories[c].bookCount)
           => \E r \in Req : \E i \in 1..2 :
                 /\ req[r].pc = "recalc" /\ req[r].rc[i].pc = "write"
                 /\ req[r].rc[i].cat = c
                 /\ req'[r].rc[i].pc = "done"]_vars

\* C23 witness: a create that carried bookCount 5 was answered 201 and the
\* category counts 0
C23_Witness ==
    /\ Answered(1, "createCategory", 201)
    /\ req[1].bookCount = <<5>>
    /\ req[1].id \in DOMAIN categories
    /\ categories[req[1].id].bookCount = 0

UniqueUsers ==
    \A u, v \in DOMAIN users :
        u # v => /\ users[u].email # users[v].email
                 /\ users[u].userName # users[v].userName

\* a stored user has the email or the userName of request q
Collides(q) ==
    \E u \in DOMAIN users :
        \/ users[u].email = Trim(toLowerCase(q.email))
        \/ users[u].userName = Trim(q.userName)

\* C24: (the claim as stated) under every interleaving of concurrent register
\* requests no two stored users have the same email or the same userName, and a
\* register request whose findOne or whose save meets a stored user with its
\* email or userName is answered 409 and stores no user.
C24_RegisterRace ==
    /\ []UniqueUsers
    /\ [][\A r \in Req :
            /\ (ureq[r].op = "idle" /\ ureq'[r].op = "register"
                  /\ ureq'[r].password = ureq'[r].confirmPassword
                  /\ Collides(ureq'[r]))
               => (ureq'[r].status = 409 /\ users' = users)
            /\ (ureq[r].op = "register" /\ ureq[r].pc = "save"
                  /\ ureq'[r] # ureq[r] /\ ureq[r].valid /\ Collides(ureq[r]))
               => (ureq'[r].status = 409 /\ users' = users)]_vars

\* C25: POST /api/users/register whose password differs from confirmPassword,
\* and PUT /api/users/:id whose password is not empty and differs from
\* confirmPassword, are answered 400 by their first step, which ends the
\* request and leaves every stored user as it was.
C25_PasswordMismatchRejected ==
    [][\A r \in Req :
        (/\ ureq[r].op = "idle"
         /\ \/ ureq'[r].op = "register"
            \/ ureq'[r].op = "updateUser" /\ ureq'[r].password \notin {Undef, <<>>}
         /\ ureq'[r].password # ureq'[r].confirmPassword)
        => /\ ureq'[r].pc = "done" /\ ureq'[r].status = 400
           /\ users' = users]_vars

\* C25 witness: the update of a stored user with a new password and another
\* confirmPassword was answered 400; the user does not have the hash of the new
\* password
C25_Witness ==
    \E r \in Req :
        /\ ureq[r].op = "updateUser" /\ ureq[r].pc = "done" /\ ureq[r].status = 400
        /\ ureq[r].id \in DOMAIN users
        /\ ureq[r].password \notin {Undef, <<>>}
        /\ ureq[r].password # ureq[r].confirmPassword
        /\ users[ureq[r].id].password # bcryptHash(ureq[r].password)

\* the stored users a login with this email and userName is about
Identified(email, userName) ==
    IF email \notin {Undef, <<>>}
    THEN {u \in DOMAIN users : users[u].email = Trim(toLowerCase(email))}
    ELSE {u \in DOMAIN users : users[u].userName = Trim(userName)}

\* C26: a login with a password and an email or userName is answered 401 with
\* the one body "Invalid credentials." both when no user has the identifier and
\* when one has it but the password does not verify; it is answered 200 only if
\* the stored hash verifies; it changes no user; the user object of its response
\* has no password field and none of its fields is the stored hash.
C26_LoginNonDisclosure ==
    [][\A r \in Req :
        (/\ ureq[r].op = "idle" /\ ureq'[r].op = "login"
         /\ ureq'[r].password \notin {Undef, <<>>}
         /\ ureq'[r].email \notin {Undef, <<>>} \/ ureq'[r].userName \notin {Undef, <<>>})
        => LET q == ureq'[r]
               hit == Identified(q.email, q.userName)
               verified == {u \in hit : users[u].password = bcryptHash(q.password)}
           IN  /\ q.pc = "done"
               /\ verified = {}
                  => (q.status = 401 /\ q.body = Body("Invalid credentials.", <<>>))
               /\ q.status = 200 => verified # {}
               /\ users' = users
               /\ \A i \in DOMAIN q.body.user :
                     /\ "password" \notin DOMAIN q.body.user[i]
                     /\ \A u \in DOMAIN users :
                           /\ q.body.user[i].userName # users[u].password
                           /\ q.body.user[i].email # users[u].password]_vars

\* C26 witness: two logins were answered 401 with the same body, one for which
\* no user was found and one whose user was found
C26_Witness ==
    \E r, o \in Req :
        /\ ureq[r].op = "login" /\ ureq[r].pc = "done" /\ ureq[r].status = 401
        /\ ureq[o].op = "login" /\ ureq[o].pc = "done" /\ ureq[o].status = 401
        /\ ~ureq[r].matched /\ ureq[o].matched
        /\ ureq[r].body = ureq[o].body

=============================================================================
